---------------------------- MODULE Spec2Model ----------------------------
(***************************************************************************)
(* The "trap room" quiz progression of frontend/public/aware-main/script.js *)
(* as a state machine: the script's variables (score, answeredQuizIds,     *)
(* unlockedTaskIds, answeredCorrectlyCount), the three localStorage slots, *)
(* and the DOM classes and properties the handlers read and write.         *)
(*                                                                         *)
(* Text is a sequence of one-character strings, so that String(n),         *)
(* parseInt, JSON.stringify and JSON.parse are computed character by       *)
(* character.  A JavaScript Set is a duplicate-free sequence of its        *)
(* elements.  The number NaN is the value NaN below.                       *)
(*                                                                         *)
(* The report viewer of frontend/src/App.js is the second part: the state  *)
(* of the App, HomePage and HistoryPage components and the requests to the *)
(* analysis service that have not settled yet.                             *)
(***************************************************************************)
EXTENDS Integers, Sequences, FiniteSets, TLC

\* Number of .task elements of the page (task1 .. taskN).
NumTasks == 3

Tasks == 1..NumTasks

\* Number of .quiz elements inside task t (spec.md section 8, scenario 1:
\* task1 has two quiz items, every later task one).
QuizCount(t) == IF t = 1 THEN 2 ELSE 1

QuizIdx(t) == 0..(QuizCount(t) - 1)

\* document.querySelectorAll('.quiz').length
RECURSIVE CountQuizzes(_)
CountQuizzes(n) == IF n = 0 THEN 0 ELSE QuizCount(n) + CountQuizzes(n - 1)

totalQuestions == CountQuizzes(NumTasks)

-----------------------------------------------------------------------------
(* JavaScript values and conversions *)

NaN == 0 - 1

Inc(x) == IF x = NaN THEN NaN ELSE x + 1

\* a >= b on numbers: false as soon as one side is NaN
Geq(a, b) == a # NaN /\ b # NaN /\ a >= b

DigitChars == <<"0", "1", "2", "3", "4", "5", "6", "7", "8", "9">>

IsDigit(c) == \E i \in 1..10 : DigitChars[i] = c

DigitVal(c) == (CHOOSE i \in 1..10 : DigitChars[i] = c) - 1

\* String(n) for a number n >= 0 or NaN
RECURSIVE NumToString(_)
NumToString(n) ==
    IF n = NaN THEN <<"N", "a", "N">>
    ELSE IF n < 10 THEN <<DigitChars[n + 1]>>
    ELSE NumToString(n \div 10) \o <<DigitChars[(n % 10) + 1]>>

\* parseInt(s): the longest prefix of decimal digits, NaN when there is none
RECURSIVE ParseDigits(_, _, _)
ParseDigits(s, i, acc) ==
    IF i > Len(s) \/ ~IsDigit(s[i])
    THEN (IF i = 1 THEN NaN ELSE acc)
    ELSE ParseDigits(s, i + 1, acc * 10 + DigitVal(s[i]))

parseInt(s) == ParseDigits(s, 1, 0)

\* task.id of the n-th task element: "task<n>"
TaskId(n) == <<"t", "a", "s", "k">> \o NumToString(n)

\* `${currentTask.id}_${index of the quiz inside the task}`
QuizId(t, q) == TaskId(t) \o <<"_">> \o NumToString(q)

\* The ids of the document, in document order: each task id, then its quiz ids
RECURSIVE DocumentIds(_)
DocumentIds(n) ==
    IF n = 0 THEN <<>>
    ELSE DocumentIds(n - 1) \o <<TaskId(n)>> \o [i \in 1..QuizCount(n) |-> QuizId(n, i - 1)]

InDocument(e) == \E i \in 1..Len(DocumentIds(NumTasks)) : DocumentIds(NumTasks)[i] = e

\* Set.prototype.has / add, new Set(array), Array.from(set), set.size.
\* A JavaScript Set lists its elements in insertion order.  The script reads a
\* Set only through has and size and through JSON.stringify(Array.from(set)),
\* whose text is only parsed back into a Set, so no statement depends on the
\* order; a Set is kept here with the ids of the document in document order,
\* followed by any other strings in insertion order.
SetHas(s, x) == \E i \in 1..Len(s) : s[i] = x

Ordered(s) ==
    SelectSeq(DocumentIds(NumTasks), LAMBDA e : SetHas(s, e))
    \o SelectSeq(s, LAMBDA e : ~InDocument(e))

\* Mutant of SetAdd: the new member replaces the old ones
SetAddAlone(s, x) == <<x>>

SetAdd(s, x) == IF SetHas(s, x) THEN s ELSE Ordered(Append(s, x))

RECURSIVE NewSetFrom(_, _)
NewSetFrom(arr, acc) ==
    IF arr = <<>> THEN acc ELSE NewSetFrom(Tail(arr), SetAdd(acc, Head(arr)))

NewSet(arr) == NewSetFrom(arr, <<>>)

ArrayFrom(s) == s

SetSize(s) == Len(s)

Members(s) == {s[i] : i \in 1..Len(s)}

\* JSON.stringify of an array of strings (the ids need no escaping)
RECURSIVE JoinQuoted(_)
JoinQuoted(arr) ==
    IF arr = <<>> THEN <<>>
    ELSE <<"\"">> \o Head(arr) \o <<"\"">>
         \o (IF Len(arr) > 1 THEN <<",">> ELSE <<>>) \o JoinQuoted(Tail(arr))

JSONstringify(arr) == <<"[">> \o JoinQuoted(arr) \o <<"]">>

\* JSON.parse restricted to arrays of escape-free strings; any other text is
\* reported as a SyntaxError (ok = FALSE).
\* ParseString(s, i, acc): s[i-1] was the opening quote
RECURSIVE ParseString(_, _, _)
ParseString(s, i, acc) ==
    IF i > Len(s) THEN [ok |-> FALSE, value |-> <<>>, next |-> i]
    ELSE IF s[i] = "\"" THEN [ok |-> TRUE, value |-> acc, next |-> i + 1]
    ELSE ParseString(s, i + 1, Append(acc, s[i]))

\* ParseElements(s, i, acc): s[i] must start an element
RECURSIVE ParseElements(_, _, _)
ParseElements(s, i, acc) ==
    IF i > Len(s) \/ s[i] # "\"" THEN [ok |-> FALSE, value |-> <<>>]
    ELSE LET e == ParseString(s, i + 1, <<>>) IN
         IF ~e.ok \/ e.next > Len(s) THEN [ok |-> FALSE, value |-> <<>>]
         ELSE IF s[e.next] = "]"
              THEN [ok |-> e.next = Len(s), value |-> Append(acc, e.value)]
         ELSE IF s[e.next] = ","
              THEN ParseElements(s, e.next + 1, Append(acc, e.value))
         ELSE [ok |-> FALSE, value |-> <<>>]

JSONparse(s) ==
    IF Len(s) < 2 \/ s[1] # "[" THEN [ok |-> FALSE, value |-> <<>>]
    ELSE IF s[2] = "]" THEN [ok |-> Len(s) = 2, value |-> <<>>]
    ELSE ParseElements(s, 2, <<>>)

-----------------------------------------------------------------------------
(* The page *)

VARIABLES
    score,                  \* let score
    answeredCorrectlyCount, \* let answeredCorrectlyCount
    answeredQuizIds,        \* let answeredQuizIds: Set of quiz ids
    unlockedTaskIds,        \* let unlockedTaskIds: Set of task ids
    storage,                \* localStorage: the three aware_* items
    locked,                 \* locked[t]: task t has class 'locked'
    active,                 \* active[t]: task t has class 'active'
    answered,               \* answered[t][q]: quiz q of task t has class 'answered'
    nextDisabled,           \* nextDisabled[t]: the .btn-next of task t is disabled
    questionsTotal,         \* questionsTotal[t]: the data-questions-total attribute
    progress,               \* width of the progress bar, <<numerator, denominator>>
    listening,              \* the event listeners are attached
    alert,                  \* the custom alert overlay
    lastCmd,                \* history: the last command and its outcome
    advancedOk,             \* history: tasks advanced while all their quizzes were answered
    page,                   \* App: const [page, setPage]
    report,                 \* App: const [report, setReport]
    url,                    \* HomePage: const [url, setUrl]
    isLoading,              \* HomePage: const [isLoading, setIsLoading]
    error,                  \* HomePage: const [error, setError]
    history,                \* HistoryPage: const [history, setHistory], the ids of its items
    historyIsLoading,       \* HistoryPage: const [isLoading, setIsLoading]
    historyError,           \* HistoryPage: const [error, setError]
    pendingAnalyze,         \* calls of handleSubmit waiting at `await analyzeUrl(url)`
    pendingHistory,         \* calls of fetchHistory waiting at `await getScanHistory()`
    pendingView,            \* calls of handleViewReport waiting at `await fetchReport(id)`
    lastView,               \* history: the id of the last report requested for viewing
    shown,                  \* history: ids whose fetch succeeded since they were last requested
    lastEvent               \* history: the last step of the report viewer

vars == <<score, answeredCorrectlyCount, answeredQuizIds, unlockedTaskIds, storage,
          locked, active, answered, nextDisabled, questionsTotal, progress,
          listening, alert, lastCmd, advancedOk,
          page, report, url, isLoading, error, history, historyIsLoading, historyError,
          pendingAnalyze, pendingHistory, pendingView, lastView, shown, lastEvent>>

\* the variables of the quiz page
quiz == <<score, answeredCorrectlyCount, answeredQuizIds, unlockedTaskIds, storage,
          locked, active, answered, nextDisabled, questionsTotal, progress,
          listening, alert, lastCmd, advancedOk>>

\* the variables of the report viewer
app == <<page, report, url, isLoading, error, history, historyIsLoading, historyError,
         pendingAnalyze, pendingHistory, pendingView, lastView, shown, lastEvent>>

mem == <<score, answeredCorrectlyCount, answeredQuizIds, unlockedTaskIds>>

dom == <<locked, active, answered, nextDisabled, progress, alert>>

LS_SCORE == "aware_score"
LS_ANSWERED == "aware_answered"
LS_UNLOCKED == "aware_unlocked"

Slots == {LS_SCORE, LS_ANSWERED, LS_UNLOCKED}

\* An item of localStorage, or an attribute: absent (getItem gives null), or a text
Absent == [present |-> FALSE, text |-> <<>>]

Text(s) == [present |-> TRUE, text |-> s]

\* JavaScript truthiness of a string-or-null: null and "" are falsy
Truthy(v) == v.present /\ v.text # <<>>

EmptyStorage == [k \in Slots |-> Absent]

\* The page as served, before the script runs: task1 is the only task without
\* the class 'locked', no task is active, no quiz is answered, every
\* "Next Task" button is disabled, the alert overlay is hidden.
MarkupLocked(t) == t # 1

MarkupActive(t) == FALSE

MarkupNextDisabled(t) == TRUE

MarkupProgress == <<0, 1>>

MarkupAlert == [hidden |-> TRUE, title |-> "", message |-> <<>>]

\* data-questions-total of a well-formed page: the number of quizzes of the task
WellFormedTotals == [t \in Tasks |-> Text(NumToString(QuizCount(t)))]

\* parseInt(element.dataset.x): parseInt(undefined) is NaN
AttrParseInt(a) == IF a.present THEN parseInt(a.text) ELSE NaN

\* Mutant of updateProgress: the width is never raised
updateProgressZero(count) == <<0, 1>>

\* updateProgress: totalQuestions > 0 ? (answeredCorrectlyCount / totalQuestions) * 100 : 0
updateProgress(count) ==
    IF totalQuestions > 0 THEN <<count * 100, totalQuestions>> ELSE <<0, 1>>

\* Mutant of saveStateToLocalStorage: the setItem of LS_SCORE is missing
saveWithoutScore(sc, ans, unl) ==
    [k \in Slots |->
        IF k = LS_SCORE THEN storage[k]
        ELSE IF k = LS_ANSWERED THEN Text(JSONstringify(ArrayFrom(ans)))
        ELSE Text(JSONstringify(ArrayFrom(unl)))]

\* Mutant of saveStateToLocalStorage: the setItem of LS_ANSWERED is missing
saveWithoutAnswered(sc, ans, unl) ==
    [k \in Slots |->
        IF k = LS_SCORE THEN Text(NumToString(sc))
        ELSE IF k = LS_ANSWERED THEN storage[k]
        ELSE Text(JSONstringify(ArrayFrom(unl)))]

\* Mutant of saveStateToLocalStorage: the setItem of LS_UNLOCKED is missing
saveWithoutUnlocked(sc, ans, unl) ==
    [k \in Slots |->
        IF k = LS_SCORE THEN Text(NumToString(sc))
        ELSE IF k = LS_ANSWERED THEN Text(JSONstringify(ArrayFrom(ans)))
        ELSE storage[k]]

\* saveStateToLocalStorage: the three setItem calls
saveStateToLocalStorage(sc, ans, unl) ==
    [k \in Slots |->
        IF k = LS_SCORE THEN Text(NumToString(sc))
        ELSE IF k = LS_ANSWERED THEN Text(JSONstringify(ArrayFrom(ans)))
        ELSE Text(JSONstringify(ArrayFrom(unl)))]

\* Mutant of RestoredScore: the saved score is not read
RestoredScoreZero(savedScore) == 0

\* score = savedScore ? parseInt(savedScore) : 0
RestoredScore(savedScore) ==
    IF Truthy(savedScore) THEN parseInt(savedScore.text) ELSE 0

\* savedX ? new Set(JSON.parse(savedX)) : new Set(); ok is FALSE when JSON.parse throws
ParsedSet(p) == [ok |-> p.ok, value |-> IF p.ok THEN NewSet(p.value) ELSE <<>>]

RestoredSet(saved) ==
    IF Truthy(saved) THEN ParsedSet(JSONparse(saved.text))
    ELSE [ok |-> TRUE, value |-> <<>>]

\* restoreStateFromLocalStorage, statement by statement, from the score sc and
\* the outcomes a and u of the two set statements.  JSON.parse throws on a text
\* it cannot parse; the statements after the throw are not executed and the
\* variables keep the values of their declarations (lines 15-17).
RestoredState(sc, a, u) ==
    [threw |-> ~a.ok \/ ~u.ok,
     score |-> sc,
     answeredQuizIds |-> a.value,
     answeredCorrectlyCount |-> SetSize(a.value),
     unlockedTaskIds |-> IF a.ok THEN u.value ELSE <<>>]

restoreStateFromLocalStorage(st) ==
    RestoredState(RestoredScore(st[LS_SCORE]), RestoredSet(st[LS_ANSWERED]),
                  RestoredSet(st[LS_UNLOCKED]))

\* number of .quiz.answered elements of task t, for a class assignment a
AnsweredInTask(a, t) == Cardinality({q \in QuizIdx(t) : a[t][q]})

\* answeredInTask >= totalInTask
TaskComplete(a, t) == Geq(AnsweredInTask(a, t), AttrParseInt(questionsTotal[t]))

\* restoreUIState, first loop: class 'answered' for the quizzes of answeredQuizIds
RestoredAnswered(ans) == [t \in Tasks |-> [q \in QuizIdx(t) |-> SetHas(ans, QuizId(t, q))]]

\* Mutant of RestoredLocked: the second loop of restoreUIState is missing
RestoredLockedAsServed(unl) == [t \in Tasks |-> MarkupLocked(t)]

\* restoreUIState, second loop: class 'locked' removed from the tasks of unlockedTaskIds
RestoredLocked(unl) == [t \in Tasks |-> MarkupLocked(t) /\ ~SetHas(unl, TaskId(t))]

\* Mutant of RestoredNextDisabled: the third loop of restoreUIState is missing
RestoredNextDisabledAsServed(qt, a) == [t \in Tasks |-> MarkupNextDisabled(t)]

\* restoreUIState, third loop: the next buttons of the complete tasks are enabled
RestoredNextDisabled(qt, a) ==
    [t \in Tasks |->
        MarkupNextDisabled(t)
        /\ ~Geq(AnsweredInTask(a, t), AttrParseInt(qt[t]))]

\* initializeGame after restoreStateFromLocalStorage gave r: when it threw,
\* initializeGame stops there, no listener is attached and the DOM stays as
\* served; else updateProgress, setupEventListeners and restoreUIState run.
InitializedPage(r, qt) ==
    [score |-> r.score,
     answeredCorrectlyCount |-> r.answeredCorrectlyCount,
     answeredQuizIds |-> r.answeredQuizIds,
     unlockedTaskIds |-> r.unlockedTaskIds,
     listening |-> ~r.threw,
     progress |-> IF r.threw THEN MarkupProgress
                  ELSE updateProgress(r.answeredCorrectlyCount),
     answered |-> IF r.threw THEN [t \in Tasks |-> [q \in QuizIdx(t) |-> FALSE]]
                  ELSE RestoredAnswered(r.answeredQuizIds),
     locked |-> IF r.threw THEN [t \in Tasks |-> MarkupLocked(t)]
                ELSE RestoredLocked(r.unlockedTaskIds),
     nextDisabled |-> IF r.threw THEN [t \in Tasks |-> MarkupNextDisabled(t)]
                      ELSE RestoredNextDisabled(qt, RestoredAnswered(r.answeredQuizIds)),
     active |-> [t \in Tasks |-> MarkupActive(t)],
     alert |-> MarkupAlert]

\* The page after a load with localStorage st and attributes qt: the
\* declarations of lines 11-17, then initializeGame
PageLoad(st, qt) == InitializedPage(restoreStateFromLocalStorage(st), qt)

\* the variables hold the page p
PageIs(p) ==
    /\ score = p.score
    /\ answeredCorrectlyCount = p.answeredCorrectlyCount
    /\ answeredQuizIds = p.answeredQuizIds
    /\ unlockedTaskIds = p.unlockedTaskIds
    /\ listening = p.listening
    /\ progress = p.progress
    /\ answered = p.answered
    /\ locked = p.locked
    /\ nextDisabled = p.nextDisabled
    /\ active = p.active
    /\ alert = p.alert

\* Number of reports the analysis service holds
NumReports == 2

ReportIds == 1..NumReports

\* useState(null) of report: no report
NoReport == 0

\* useState(null) of error: no message
NoError == "null"

\* the state a HomePage has when it mounts, and that is dropped when it unmounts
HomeMounts ==
    /\ url' = ""
    /\ isLoading' = FALSE
    /\ error' = NoError

\* the state a HistoryPage has when it mounts, and that is dropped when it unmounts
HistoryMounts ==
    /\ history' = {}
    /\ historyIsLoading' = TRUE
    /\ historyError' = NoError

\* App and its first HomePage as first rendered
AppStarts ==
    /\ page = "home"
    /\ report = NoReport
    /\ url = ""
    /\ isLoading = FALSE
    /\ error = NoError
    /\ history = {}
    /\ historyIsLoading = TRUE
    /\ historyError = NoError
    /\ pendingAnalyze = {}
    /\ pendingHistory = {}
    /\ pendingView = {}
    /\ lastView = NoReport
    /\ shown = {}
    /\ lastEvent = "start"

\* A fresh session: nothing stored, a well-formed page
Init ==
    /\ storage = EmptyStorage
    /\ questionsTotal = WellFormedTotals
    /\ \E p \in {PageLoad(EmptyStorage, WellFormedTotals)} : PageIs(p)
    /\ lastCmd = "load"
    /\ advancedOk = {}
    /\ AppStarts

\* the variables hold the page p in the next state
PageBecomes(p) ==
    /\ score' = p.score
    /\ answeredCorrectlyCount' = p.answeredCorrectlyCount
    /\ answeredQuizIds' = p.answeredQuizIds
    /\ unlockedTaskIds' = p.unlockedTaskIds
    /\ listening' = p.listening
    /\ progress' = p.progress
    /\ answered' = p.answered
    /\ locked' = p.locked
    /\ nextDisabled' = p.nextDisabled
    /\ active' = p.active
    /\ alert' = p.alert

\* The browser loads the page again with the items st in localStorage
LoadPage(st) ==
    /\ storage' = st
    /\ \E p \in {PageLoad(st, questionsTotal)} : PageBecomes(p)
    /\ UNCHANGED questionsTotal
    /\ UNCHANGED app

-----------------------------------------------------------------------------
(* The handlers *)

\* Mutant of IsLocked: the class 'locked' is not tested
IsLockedNever(t) == FALSE

\* task.classList.contains('locked')
IsLocked(t) == locked[t]

\* Mutant of CloseOthers: the other active tasks are left open
CloseNone(a, t) == a

\* Mutant of CloseOthers: only the tasks before the clicked one are closed
CloseEarlier(a, t) == [u \in Tasks |-> IF u < t THEN FALSE ELSE a[u]]

\* document.querySelectorAll('.task.active').forEach(activeTask =>
\*     { if (activeTask !== task) activeTask.classList.remove('active') })
CloseOthers(a, t) == [u \in Tasks |-> IF u # t THEN FALSE ELSE a[u]]

\* showCustomAlert(title, message)
showCustomAlert(title, message) == [hidden |-> FALSE, title |-> title, message |-> message]

\* Mutant of handleTaskHeaderClick: the click unlocks the task and records it
handleTaskHeaderClickUnlocking(t) ==
    /\ listening
    /\ active' = [CloseOthers(active, t) EXCEPT ![t] = ~active[t]]
    /\ locked' = [locked EXCEPT ![t] = FALSE]
    /\ unlockedTaskIds' = SetAdd(unlockedTaskIds, TaskId(t))
    /\ storage' = saveStateToLocalStorage(score, answeredQuizIds, unlockedTaskIds')
    /\ lastCmd' = "toggle"
    /\ UNCHANGED <<score, answeredCorrectlyCount, answeredQuizIds, answered, nextDisabled,
                   questionsTotal, progress, listening, alert, advancedOk>>
    /\ UNCHANGED app

\* handleTaskHeaderClick(task): a warning when the task is locked, else the
\* other tasks are closed and the task's own class 'active' is toggled
handleTaskHeaderClick(t) ==
    /\ listening
    /\ IF IsLocked(t)
       THEN /\ alert' = showCustomAlert("Task Locked!", <<>>)
            /\ lastCmd' = "toggle_locked"
            /\ UNCHANGED active
       ELSE /\ active' = [CloseOthers(active, t) EXCEPT ![t] = ~active[t]]
            /\ lastCmd' = "toggle"
            /\ UNCHANGED alert
    /\ UNCHANGED <<mem, storage, locked, answered, nextDisabled, questionsTotal,
                   progress, listening, advancedOk>>
    /\ UNCHANGED app

\* Mutant of AlreadyAnswered: the early return is missing
AlreadyAnsweredNever(quizId) == FALSE

\* if (answeredQuizIds.has(quizId)) return;
AlreadyAnswered(quizId) == SetHas(answeredQuizIds, quizId)

\* Mutant of IsCorrect: every option counts as correct
IsCorrectAlways(dataCorrect) == TRUE

\* selectedOption.dataset.correct === 'true'
IsCorrect(dataCorrect) == dataCorrect = "true"

\* lines 134-140: the task whose quizzes are now all answered is added to
\* unlockedTaskIds (and its next button enabled)
UnlockedAfterAnswer(unl, t, complete) ==
    IF complete THEN SetAdd(unl, TaskId(t)) ELSE unl

\* handleOptionClick(selectedOption, currentTask): selectedOption is an option
\* of quiz q of task t whose data-correct attribute is dataCorrect
handleOptionClick(t, q, dataCorrect) ==
    LET quizId == QuizId(t, q) IN
    /\ listening
    /\ IF AlreadyAnswered(quizId)
       THEN /\ lastCmd' = "submit_noop"
            /\ UNCHANGED <<mem, storage, answered, nextDisabled, progress>>
       ELSE IF IsCorrect(dataCorrect)
       THEN LET a == [answered EXCEPT ![t][q] = TRUE]
                complete == TaskComplete(a, t)
            IN  /\ answered' = a
                /\ score' = Inc(score)
                /\ answeredCorrectlyCount' = answeredCorrectlyCount + 1
                /\ progress' = updateProgress(answeredCorrectlyCount + 1)
                /\ answeredQuizIds' = SetAdd(answeredQuizIds, quizId)
                /\ nextDisabled' = [nextDisabled EXCEPT ![t] = IF complete THEN FALSE ELSE @]
                /\ unlockedTaskIds' = UnlockedAfterAnswer(unlockedTaskIds, t, complete)
                /\ storage' = saveStateToLocalStorage(score', answeredQuizIds', unlockedTaskIds')
                /\ lastCmd' = "submit_correct"
       ELSE /\ lastCmd' = "submit_incorrect"
            /\ UNCHANGED <<mem, storage, answered, nextDisabled, progress>>
    /\ UNCHANGED <<locked, active, questionsTotal, listening, alert, advancedOk>>
    /\ UNCHANGED app

\* Mutant of CurrentTaskNumber: the prefix 'task' is not removed before parseInt
CurrentTaskNumberRaw(t) == parseInt(TaskId(t))

\* parseInt(currentTask.id.replace('task', '')): the id without its first four characters
CurrentTaskNumber(t) == parseInt(SubSeq(TaskId(t), 5, Len(TaskId(t))))

\* document.getElementById(id): the task elements with that id
ElementsById(id) == {n \in Tasks : TaskId(n) = id}

\* every quiz of task t is in answeredQuizIds
AllAnswered(t) == \A q \in QuizIdx(t) : SetHas(answeredQuizIds, QuizId(t, q))

\* handleNextButtonClick(currentTask): the task is closed; the next task, when
\* there is one, is unlocked, opened and recorded; else the final alert is shown
handleNextButtonClick(t) ==
    LET nextTaskId == TaskId(CurrentTaskNumber(t) + 1)
        nextTask == ElementsById(nextTaskId)
        closed == [active EXCEPT ![t] = FALSE]
    IN
    /\ listening
    /\ IF nextTask # {}
       THEN LET n == CHOOSE n \in nextTask : TRUE IN
            /\ locked' = [locked EXCEPT ![n] = FALSE]
            /\ active' = [closed EXCEPT ![n] = TRUE]
            /\ unlockedTaskIds' = SetAdd(unlockedTaskIds, TaskId(n))
            /\ storage' = saveStateToLocalStorage(score, answeredQuizIds, unlockedTaskIds')
            /\ lastCmd' = "advance"
            /\ UNCHANGED alert
       ELSE /\ active' = closed
            /\ alert' = showCustomAlert("Congratulations!", <<score, totalQuestions>>)
            /\ lastCmd' = "complete"
            /\ UNCHANGED <<locked, unlockedTaskIds, storage>>
    /\ advancedOk' = IF AllAnswered(t) THEN advancedOk \cup {t} ELSE advancedOk
    /\ UNCHANGED <<score, answeredCorrectlyCount, answeredQuizIds, answered,
                   nextDisabled, questionsTotal, progress, listening>>
    /\ UNCHANGED app

\* A click on the "Next Task" button of task t: a disabled button gets no click event
NextButtonClick(t) ==
    /\ ~nextDisabled[t]
    /\ handleNextButtonClick(t)

\* hideCustomAlert
hideCustomAlert ==
    /\ listening
    /\ ~alert.hidden
    /\ alert' = [alert EXCEPT !.hidden = TRUE]
    /\ UNCHANGED <<mem, storage, locked, active, answered, nextDisabled,
                   questionsTotal, progress, listening, lastCmd, advancedOk>>
    /\ UNCHANGED app

\* the three localStorage.removeItem calls of the reset listener
ClearedStorage(st) == [k \in Slots |-> Absent]

\* The reset button: the three items are removed and the page is loaded again
ResetClick ==
    /\ listening
    /\ LoadPage(ClearedStorage(storage))
    /\ lastCmd' = "reset"
    /\ advancedOk' = {}

\* The user reloads the page
Reload ==
    /\ LoadPage(storage)
    /\ lastCmd' = "reload"
    /\ UNCHANGED advancedOk

DataCorrect == {"true", "false"}

Next ==
    \/ \E t \in Tasks : handleTaskHeaderClick(t)
    \/ \E t \in Tasks : \E q \in QuizIdx(t) : \E c \in DataCorrect : handleOptionClick(t, q, c)
    \/ \E t \in Tasks : NextButtonClick(t)
    \/ hideCustomAlert
    \/ ResetClick
    \/ Reload

Spec == Init /\ [][Next]_vars

\* The handlers called as commands: handleNextButtonClick itself tests nothing,
\* so a caller that has not disabled the button reaches it in any state
NextEngine ==
    \/ \E t \in Tasks : handleTaskHeaderClick(t)
    \/ \E t \in Tasks : \E q \in QuizIdx(t) : \E c \in DataCorrect : handleOptionClick(t, q, c)
    \/ \E t \in Tasks : handleNextButtonClick(t)
    \/ hideCustomAlert
    \/ ResetClick
    \/ Reload

SpecEngine == Init /\ [][NextEngine]_vars

\* Texts found in the three items when the page is opened: absent, empty,
\* written by an earlier session, or not parsable
ValidAnswered == JSONstringify(<<QuizId(1, 0)>>)

ValidUnlocked == JSONstringify(<<TaskId(1), TaskId(2)>>)

Truncated(s) == SubSeq(s, 1, Len(s) - 1)

ScoreTexts == {Absent, Text(<<>>), Text(NumToString(1)), Text(<<"a", "b", "c">>)}

AnsweredTexts == {Absent, Text(ValidAnswered), Text(Truncated(ValidAnswered))}

UnlockedTexts == {Absent, Text(ValidUnlocked), Text(Truncated(ValidUnlocked))}

FoundStorage ==
    {[k \in Slots |-> IF k = LS_SCORE THEN s ELSE IF k = LS_ANSWERED THEN a ELSE u] :
        s \in ScoreTexts, a \in AnsweredTexts, u \in UnlockedTexts}

\* A session opened on any of these contents of localStorage
InitLoad ==
    /\ storage \in FoundStorage
    /\ questionsTotal = WellFormedTotals
    /\ \E p \in {PageLoad(storage, WellFormedTotals)} : PageIs(p)
    /\ lastCmd = "load"
    /\ advancedOk = {}
    /\ AppStarts

SpecLoad == InitLoad /\ [][Next]_vars

\* A page whose data-questions-total is wrong on one task: absent, not a number,
\* or one less or one more than the number of quizzes the task has
MalformedAt(t, attr) == [u \in Tasks |-> IF u = t THEN attr ELSE WellFormedTotals[u]]

Catalogs ==
    {WellFormedTotals}
    \cup {MalformedAt(t, attr) : t \in Tasks, attr \in {Absent, Text(<<"a", "b", "c">>)}}
    \cup {MalformedAt(t, Text(NumToString(QuizCount(t) + d))) : t \in Tasks, d \in {0 - 1, 1}}

\* A fresh session on any of these pages
InitCatalog ==
    /\ storage = EmptyStorage
    /\ questionsTotal \in Catalogs
    /\ \E p \in {PageLoad(EmptyStorage, questionsTotal)} : PageIs(p)
    /\ lastCmd = "load"
    /\ advancedOk = {}
    /\ AppStarts

SpecCatalog == InitCatalog /\ [][Next]_vars

\* saveStateToLocalStorage when its k-th setItem throws (quota exceeded, storage
\* unavailable): the items before it are written, the others keep their text
SlotOrder(key) == IF key = LS_SCORE THEN 1 ELSE IF key = LS_ANSWERED THEN 2 ELSE 3

FailingSave(st, sc, ans, unl, k) ==
    [key \in Slots |->
        IF SlotOrder(key) < k THEN saveStateToLocalStorage(sc, ans, unl)[key] ELSE st[key]]

FailPoints == 1..3

\* A failed save followed by a reload can leave the score ahead of the answered
\* quizzes, and repeating it raises the score without limit: write failures are
\* explored while the score is below this bound
MaxFailScore == 2

\* handleOptionClick on a correct option of an unanswered quiz when the save of
\* line 128 throws at its k-th setItem: lines 115-127 have run, the exception
\* leaves the handler and lines 130-140 do not run
handleOptionClickWriteFails(t, q, k) ==
    /\ listening
    /\ Geq(MaxFailScore, Inc(score))
    /\ ~AlreadyAnswered(QuizId(t, q))
    /\ answered' = [answered EXCEPT ![t][q] = TRUE]
    /\ score' = Inc(score)
    /\ answeredCorrectlyCount' = answeredCorrectlyCount + 1
    /\ progress' = updateProgress(answeredCorrectlyCount + 1)
    /\ answeredQuizIds' = SetAdd(answeredQuizIds, QuizId(t, q))
    /\ storage' = FailingSave(storage, score', answeredQuizIds', unlockedTaskIds, k)
    /\ lastCmd' = "submit_write_failed"
    /\ UNCHANGED <<unlockedTaskIds, nextDisabled, locked, active, questionsTotal,
                   listening, alert, advancedOk>>
    /\ UNCHANGED app

\* the same click when the save of line 128 succeeds and the save of line 139
\* throws: every statement but that save has run (its first two setItem calls
\* rewrite the texts of line 128)
handleOptionClickSecondWriteFails(t, q) ==
    /\ listening
    /\ Geq(MaxFailScore, Inc(score))
    /\ ~AlreadyAnswered(QuizId(t, q))
    /\ TaskComplete([answered EXCEPT ![t][q] = TRUE], t)
    /\ answered' = [answered EXCEPT ![t][q] = TRUE]
    /\ score' = Inc(score)
    /\ answeredCorrectlyCount' = answeredCorrectlyCount + 1
    /\ progress' = updateProgress(answeredCorrectlyCount + 1)
    /\ answeredQuizIds' = SetAdd(answeredQuizIds, QuizId(t, q))
    /\ nextDisabled' = [nextDisabled EXCEPT ![t] = FALSE]
    /\ unlockedTaskIds' = SetAdd(unlockedTaskIds, TaskId(t))
    /\ storage' = saveStateToLocalStorage(score', answeredQuizIds', unlockedTaskIds)
    /\ lastCmd' = "submit_write_failed"
    /\ UNCHANGED <<locked, active, questionsTotal, listening, alert, advancedOk>>
    /\ UNCHANGED app

\* a click on the enabled next button of a task that has a successor when the
\* save of line 160 throws at its k-th setItem: lines 152-159 have run
handleNextButtonClickWriteFails(t, k) ==
    /\ listening
    /\ ~nextDisabled[t]
    /\ ElementsById(TaskId(CurrentTaskNumber(t) + 1)) # {}
    /\ \E n \in ElementsById(TaskId(CurrentTaskNumber(t) + 1)) :
          /\ locked' = [locked EXCEPT ![n] = FALSE]
          /\ active' = [active EXCEPT ![t] = FALSE, ![n] = TRUE]
          /\ unlockedTaskIds' = SetAdd(unlockedTaskIds, TaskId(n))
    /\ storage' = FailingSave(storage, score, answeredQuizIds, unlockedTaskIds', k)
    /\ lastCmd' = "advance_write_failed"
    /\ advancedOk' = IF AllAnswered(t) THEN advancedOk \cup {t} ELSE advancedOk
    /\ UNCHANGED <<score, answeredCorrectlyCount, answeredQuizIds, answered,
                   nextDisabled, questionsTotal, progress, listening, alert>>
    /\ UNCHANGED app

NextFail ==
    \/ Next
    \/ \E t \in Tasks : \E q \in QuizIdx(t) : \E k \in FailPoints :
          handleOptionClickWriteFails(t, q, k)
    \/ \E t \in Tasks : \E q \in QuizIdx(t) : handleOptionClickSecondWriteFails(t, q)
    \/ \E t \in Tasks : \E k \in FailPoints : handleNextButtonClickWriteFails(t, k)

\* The session when a write to localStorage may fail
SpecFail == Init /\ [][NextFail]_vars

-----------------------------------------------------------------------------
(* The report viewer *)

\* the texts typed into the URL input
Urls == {"", "a"}

\* err.message of a rejected request
ErrorMessage == "HTTP error!"

\* Mutant of IsEmpty: the early return of handleSubmit is missing
IsEmptyNever(u) == FALSE

\* !url
IsEmpty(u) == u = ""

\* the calls in reqs go on after their component has unmounted: the state
\* setters of that component no longer do anything
Unmounted(reqs) == {[r EXCEPT !.mounted = FALSE] : r \in reqs}

\* setPage(p) while the calls pa, ph and pv are waiting.  The same page: React
\* renders nothing anew.  Another page: renderPage unmounts the component of the
\* old page, whose state is lost, and mounts the component of the new one with
\* its initial state; a HistoryPage that mounts starts fetchHistory.
setPage(p, pa, ph, pv) ==
    /\ page' = p
    /\ IF p = page
       THEN /\ pendingAnalyze' = pa
            /\ pendingHistory' = ph
            /\ pendingView' = pv
            /\ UNCHANGED <<url, isLoading, error, history, historyIsLoading, historyError>>
       ELSE /\ pendingAnalyze' = Unmounted(pa)
            /\ pendingHistory' =
                  Unmounted(ph) \cup (IF p = "history" THEN {[mounted |-> TRUE]} ELSE {})
            /\ pendingView' = Unmounted(pv)
            /\ HomeMounts
            /\ HistoryMounts

\* Header: the logo and the Analyze button call setPage('home'), the History
\* button setPage('history')
HeaderClick(p) ==
    /\ setPage(p, pendingAnalyze, pendingHistory, pendingView)
    /\ lastEvent' = "navigate"
    /\ UNCHANGED <<report, lastView, shown>>
    /\ UNCHANGED quiz

\* onChange of the input: setUrl(e.target.value)
setUrl(u) ==
    /\ page = "home"
    /\ url' = u
    /\ lastEvent' = "type"
    /\ UNCHANGED <<page, report, isLoading, error, history, historyIsLoading, historyError,
                   pendingAnalyze, pendingHistory, pendingView, lastView, shown>>
    /\ UNCHANGED quiz

\* HomePage.handleSubmit up to its await
handleSubmit ==
    /\ page = "home"
    /\ IF IsEmpty(url)
       THEN /\ lastEvent' = "submit_empty"
            /\ UNCHANGED <<isLoading, error, pendingAnalyze>>
       ELSE /\ isLoading' = TRUE
            /\ error' = NoError
            /\ pendingAnalyze' = pendingAnalyze \cup {[url |-> url, mounted |-> TRUE]}
            /\ lastEvent' = "submit"
    /\ UNCHANGED <<page, report, url, history, historyIsLoading, historyError,
                   pendingHistory, pendingView, lastView, shown>>
    /\ UNCHANGED quiz

\* The form is submitted: the submit button is disabled while isLoading
FormSubmit ==
    /\ ~isLoading
    /\ handleSubmit

\* analyzeUrl resolves with the report rep: setReport(reportData),
\* setPage('report'), and setIsLoading(false) on a component that unmounts
analyzeUrlResolves(req, rep) ==
    /\ req \in pendingAnalyze
    /\ report' = rep
    /\ setPage("report", pendingAnalyze \ {req}, pendingHistory, pendingView)
    /\ lastEvent' = "analyze_ok"
    /\ UNCHANGED <<lastView, shown>>
    /\ UNCHANGED quiz

\* analyzeUrl rejects: setError(err.message) and setIsLoading(false), which act
\* when the HomePage that submitted is still mounted
analyzeUrlRejects(req) ==
    /\ req \in pendingAnalyze
    /\ pendingAnalyze' = pendingAnalyze \ {req}
    /\ IF req.mounted
       THEN /\ error' = ErrorMessage
            /\ isLoading' = FALSE
       ELSE UNCHANGED <<error, isLoading>>
    /\ lastEvent' = "analyze_failed"
    /\ UNCHANGED <<page, report, url, history, historyIsLoading, historyError,
                   pendingHistory, pendingView, lastView, shown>>
    /\ UNCHANGED quiz

\* getScanHistory of fetchHistory resolves: setHistory(historyData), setIsLoading(false)
getScanHistoryResolves(req) ==
    /\ req \in pendingHistory
    /\ pendingHistory' = pendingHistory \ {req}
    /\ IF req.mounted
       THEN /\ history' = ReportIds
            /\ historyIsLoading' = FALSE
       ELSE UNCHANGED <<history, historyIsLoading>>
    /\ lastEvent' = "history_ok"
    /\ UNCHANGED <<page, report, url, isLoading, error, historyError,
                   pendingAnalyze, pendingView, lastView, shown>>
    /\ UNCHANGED quiz

\* getScanHistory rejects: setError(err.message), setIsLoading(false)
getScanHistoryRejects(req) ==
    /\ req \in pendingHistory
    /\ pendingHistory' = pendingHistory \ {req}
    /\ IF req.mounted
       THEN /\ historyError' = ErrorMessage
            /\ historyIsLoading' = FALSE
       ELSE UNCHANGED <<historyError, historyIsLoading>>
    /\ lastEvent' = "history_failed"
    /\ UNCHANGED <<page, report, url, isLoading, error, history,
                   pendingAnalyze, pendingView, lastView, shown>>
    /\ UNCHANGED quiz

\* HistoryPage.handleViewReport(id) up to its await; the button of an item is
\* rendered when !isLoading && !error
handleViewReport(id) ==
    /\ page = "history"
    /\ ~historyIsLoading
    /\ historyError = NoError
    /\ id \in history
    /\ pendingView' = pendingView \cup {[id |-> id, mounted |-> TRUE]}
    /\ lastView' = id
    /\ shown' = shown \ {id}
    /\ lastEvent' = "view"
    /\ UNCHANGED <<page, report, url, isLoading, error, history, historyIsLoading,
                   historyError, pendingAnalyze, pendingHistory>>
    /\ UNCHANGED quiz

\* fetchReport(id) resolves with the report of that id: setReport(reportData),
\* setPage('report')
fetchReportResolves(req) ==
    /\ req \in pendingView
    /\ report' = req.id
    /\ setPage("report", pendingAnalyze, pendingHistory, pendingView \ {req})
    /\ shown' = shown \cup {req.id}
    /\ lastEvent' = "view_ok"
    /\ UNCHANGED lastView
    /\ UNCHANGED quiz

\* fetchReport(id) rejects: setError(err.message) of the HistoryPage
fetchReportRejects(req) ==
    /\ req \in pendingView
    /\ pendingView' = pendingView \ {req}
    /\ IF req.mounted
       THEN historyError' = ErrorMessage
       ELSE UNCHANGED historyError
    /\ lastEvent' = "view_failed"
    /\ UNCHANGED <<page, report, url, isLoading, error, history, historyIsLoading,
                   pendingAnalyze, pendingHistory, lastView, shown>>
    /\ UNCHANGED quiz

\* the calls that can be waiting at an await: the argument of the request and
\* whether the component that made the call is still mounted
AnalyzeCalls == [url : Urls \ {""}, mounted : BOOLEAN]

HistoryCalls == [mounted : BOOLEAN]

ViewCalls == [id : ReportIds, mounted : BOOLEAN]

\* a waiting call of handleSubmit goes on: its request has settled
AnalyzeSettles ==
    \E req \in AnalyzeCalls :
        \/ \E rep \in ReportIds : analyzeUrlResolves(req, rep)
        \/ analyzeUrlRejects(req)

NextApp ==
    \/ \E p \in {"home", "history"} : HeaderClick(p)
    \/ \E u \in Urls : setUrl(u)
    \/ FormSubmit
    \/ \E req \in AnalyzeCalls : \E rep \in ReportIds : analyzeUrlResolves(req, rep)
    \/ \E req \in AnalyzeCalls : analyzeUrlRejects(req)
    \/ \E req \in HistoryCalls : getScanHistoryResolves(req)
    \/ \E req \in HistoryCalls : getScanHistoryRejects(req)
    \/ \E id \in ReportIds : handleViewReport(id)
    \/ \E req \in ViewCalls : fetchReportResolves(req)
    \/ \E req \in ViewCalls : fetchReportRejects(req)

\* The report viewer
SpecApp == Init /\ [][NextApp]_vars

\* The report viewer when every request to the analysis service settles
SpecAppLive == Init /\ [][NextApp]_vars /\ WF_vars(AnalyzeSettles)

-----------------------------------------------------------------------------
(* Properties *)

ActiveTasks == {t \in Tasks : active[t]}

AtMostOneActive == Cardinality(ActiveTasks) <= 1

\* C1: from a fresh session, after any sequence of submitAnswer, advanceTask,
\* toggleActive and reload steps, score equals the number of elements of
\* answeredQuizIds.
C1_ScoreIsAnsweredCount == score = SetSize(answeredQuizIds)

C1_Witness ==
    /\ lastCmd = "reload"
    /\ score = 2
    /\ Members(answeredQuizIds) = {QuizId(1, 0), QuizId(2, 0)}
    /\ advancedOk # {}

\* C2: submitAnswer on a quiz whose id is already in answeredQuizIds changes
\* neither score, answeredQuizIds, unlockedTaskIds nor the three stored items,
\* whichever option is chosen.
C2_ResubmitIsNoOp ==
    [][\A t \in Tasks : \A q \in QuizIdx(t) : \A c \in DataCorrect :
          (SetHas(answeredQuizIds, QuizId(t, q)) /\ handleOptionClick(t, q, c))
          => UNCHANGED <<score, answeredQuizIds, unlockedTaskIds, storage>>]_vars

C2_Witness ==
    /\ lastCmd = "submit_noop"
    /\ score = 1
    /\ answeredQuizIds = <<QuizId(1, 0)>>
    /\ storage[LS_SCORE] = Text(<<"1">>)

\* C3: task(N+1) is in unlockedTaskIds only if advanceTask on taskN was executed
\* earlier while all quizzes of taskN were answered.
C3_SequentialUnlock ==
    \A n \in Tasks :
        (n + 1 \in Tasks /\ SetHas(unlockedTaskIds, TaskId(n + 1))) => n \in advancedOk

\* C4: advanceTask(t) invoked while not all quizzes of t are answered changes
\* neither unlockedTaskIds, the lock state, the active state nor the stored items.
C4_IneligibleAdvanceRejected ==
    [][\A t \in Tasks :
          (~AllAnswered(t) /\ handleNextButtonClick(t))
          => UNCHANGED <<unlockedTaskIds, locked, active, storage>>]_vars

\* C5: a reload (the state was saved by the last command that changed it, and is
\* restored from the three items) leaves score, answeredQuizIds and
\* unlockedTaskIds as they were.
C5_ReloadFidelity ==
    [][(lastCmd' = "reload" /\ Reload) =>
          /\ score' = score
          /\ Members(answeredQuizIds') = Members(answeredQuizIds)
          /\ Members(unlockedTaskIds') = Members(unlockedTaskIds)]_vars

C5_Witness ==
    /\ lastCmd = "reload"
    /\ score = 3
    /\ Members(unlockedTaskIds) = {TaskId(1), TaskId(2)}
    /\ ~locked[2]

\* What the claim C6 expects of each item: its stored value, or the default
\* when the item is missing or cannot be parsed
AllDigits(s) == s # <<>> /\ \A i \in 1..Len(s) : IsDigit(s[i])

ExpectedScore(saved) ==
    IF saved.present /\ AllDigits(saved.text) THEN parseInt(saved.text) ELSE 0

ExpectedSet(saved) ==
    IF saved.present /\ JSONparse(saved.text).ok
    THEN Members(JSONparse(saved.text).value) ELSE {}

\* C6: on load each item is handled on its own: a missing or unparsable item
\* gives its default (score 0, empty set), the other two are loaded with their
\* stored values, and initialization completes (the listeners are attached).
C6_SlotsLoadIndependently ==
    lastCmd \in {"load", "reload"} =>
        /\ listening
        /\ score = ExpectedScore(storage[LS_SCORE])
        /\ Members(answeredQuizIds) = ExpectedSet(storage[LS_ANSWERED])
        /\ Members(unlockedTaskIds) = ExpectedSet(storage[LS_UNLOCKED])

\* C7: after reset, score = 0, answeredQuizIds is empty, unlockedTaskIds = {task1}
\* and the three stored items are cleared.
C7_ResetState ==
    lastCmd = "reset" =>
        /\ score = 0
        /\ answeredQuizIds = <<>>
        /\ Members(unlockedTaskIds) = {TaskId(1)}
        /\ storage = EmptyStorage

\* C8: a toggleActive step taken with at most one task active leaves at most one
\* task active, whether its task is locked or not.
C8_ToggleKeepsOneActive ==
    [][\A t \in Tasks :
          (AtMostOneActive /\ handleTaskHeaderClick(t)) => AtMostOneActive']_vars

C8_Witness ==
    /\ lastCmd = "toggle"
    /\ ActiveTasks = {1}
    /\ ~locked[2]
    /\ advancedOk = {1}

\* C9: toggleActive on a locked task shows the 'Task Locked!' alert and changes
\* neither the active nor the lock state of any task, nor score, answeredQuizIds,
\* unlockedTaskIds or the stored items.
C9_LockedToggleRejected ==
    [][\A t \in Tasks :
          (locked[t] /\ handleTaskHeaderClick(t))
          => /\ ~alert'.hidden
             /\ alert'.title = "Task Locked!"
             /\ UNCHANGED <<active, locked, score, answeredQuizIds,
                            unlockedTaskIds, storage>>]_vars

C9_Witness ==
    /\ lastCmd = "toggle_locked"
    /\ locked[2]
    /\ ~active[2]
    /\ ~alert.hidden
    /\ alert.title = "Task Locked!"

\* C10: submitAnswer with an incorrect option on an unanswered quiz changes
\* neither score, answeredQuizIds, unlockedTaskIds, the answered classes, the
\* next buttons nor any stored item; the quiz stays unanswered.
C10_IncorrectChangesNothing ==
    [][\A t \in Tasks : \A q \in QuizIdx(t) :
          (~SetHas(answeredQuizIds, QuizId(t, q)) /\ handleOptionClick(t, q, "false"))
          => /\ UNCHANGED <<score, answeredQuizIds, unlockedTaskIds, storage,
                            answered, nextDisabled>>
             /\ ~SetHas(answeredQuizIds', QuizId(t, q))
             /\ ~answered'[t][q]]_vars

C10_Witness ==
    /\ lastCmd = "submit_incorrect"
    /\ score = 0
    /\ answeredQuizIds = <<>>
    /\ storage = EmptyStorage

\* C11: advanceTask(taskN) on a task whose quizzes are all answered and that has
\* a successor ends with taskN inactive, task(N+1) unlocked and active,
\* task(N+1) in unlockedTaskIds in memory and in the stored unlocked item, and
\* score and answeredQuizIds unchanged.
C11_AdvanceUnlocksNext ==
    [][\A t \in Tasks :
          (AllAnswered(t) /\ t + 1 \in Tasks /\ handleNextButtonClick(t))
          => /\ ~active'[t]
             /\ ~locked'[t + 1]
             /\ active'[t + 1]
             /\ SetHas(unlockedTaskIds', TaskId(t + 1))
             /\ TaskId(t + 1) \in ExpectedSet(storage'[LS_UNLOCKED])
             /\ UNCHANGED <<score, answeredQuizIds>>]_vars

C11_Witness ==
    /\ lastCmd = "advance"
    /\ advancedOk = {1}
    /\ ActiveTasks = {2}
    /\ ~locked[2]
    /\ Members(unlockedTaskIds) = {TaskId(1), TaskId(2)}
    /\ storage[LS_UNLOCKED] = Text(JSONstringify(<<TaskId(1), TaskId(2)>>))
    /\ score = 2

\* C12: in every reachable state the in-memory unlockedTaskIds contains task1.
C12_Task1InUnlockedIds == SetHas(unlockedTaskIds, TaskId(1))

\* C13 as stated: score never decreases from one state to the next, reset included.
C13_ScoreNeverDecreases == [][score' >= score]_vars

\* C13 as amended: score never decreases in a step of submitAnswer, advanceTask
\* or toggleActive, nor in a reload of the saved state; reset sets it to 0.
C13_ScoreDecreasesOnlyOnReset ==
    [][/\ lastCmd' # "reset" => score' >= score
       /\ lastCmd' = "reset" => score' = 0]_vars

C13_Witness ==
    /\ lastCmd = "reload"
    /\ score = totalQuestions
    /\ advancedOk = Tasks

\* C14: the three stored items decode to the in-memory score, answeredQuizIds
\* and unlockedTaskIds in every state: no command returns with memory ahead of
\* storage (every write succeeding).
C14_WriteThrough ==
    /\ score = ExpectedScore(storage[LS_SCORE])
    /\ Members(answeredQuizIds) = ExpectedSet(storage[LS_ANSWERED])
    /\ Members(unlockedTaskIds) = ExpectedSet(storage[LS_UNLOCKED])

C14_Witness ==
    /\ lastCmd = "submit_correct"
    /\ score = 3
    /\ storage[LS_SCORE] = Text(<<"3">>)
    /\ storage[LS_ANSWERED] = Text(JSONstringify(<<QuizId(1, 0), QuizId(1, 1), QuizId(2, 0)>>))
    /\ storage[LS_UNLOCKED] = Text(JSONstringify(<<TaskId(1), TaskId(2)>>))

\* C17: once the completion alert of advanceTask on the last task has been shown,
\* no later command changes the lock state or the active state of any task
\* (a reload or a reset starts the page again and is not counted).
C17_NothingMovesAfterCompletion ==
    [][(alert.title = "Congratulations!" /\ lastCmd' \notin {"reload", "reset"})
          => UNCHANGED <<locked, active>>]_vars

\* C18: at most one task is active in every reachable state.
C18_AtMostOneActiveAlways == AtMostOneActive

\* every quiz of task t has the class 'answered' in the next state
AllAnsweredAfter(t) == \A q \in QuizIdx(t) : answered'[t][q]

\* C20: a correct submitAnswer that answers the last unanswered quiz of taskN
\* enables taskN's next button, leaves every task's lock state unchanged and
\* leaves the set of unlocked task ids unchanged.
C20_LastAnswerUnlocksNothing ==
    [][\A t \in Tasks : \A q \in QuizIdx(t) :
          (/\ ~SetHas(answeredQuizIds, QuizId(t, q))
           /\ handleOptionClick(t, q, "true")
           /\ AllAnsweredAfter(t))
          => /\ ~nextDisabled'[t]
             /\ UNCHANGED <<locked, unlockedTaskIds>>]_vars

\* data-questions-total is absent or is not a number
Malformed(attr) == ~attr.present \/ ~AllDigits(attr.text)

\* C15: a task whose data-questions-total is absent or non-numeric counts as
\* having zero questions: its next button is enabled with no quiz answered, right
\* after a load and in the running session.
C15_MalformedTotalIsZero ==
    \A t \in Tasks : (listening /\ Malformed(questionsTotal[t])) => ~nextDisabled[t]

\* C16: when the save of a correct submitAnswer throws, the command still has its
\* whole in-memory effect: score equals the size of answeredQuizIds and the task
\* whose last quiz was answered has its next button enabled.
C16_FailedWriteKeepsMemoryEffect ==
    [][\A t \in Tasks : \A q \in QuizIdx(t) : \A k \in FailPoints :
          handleOptionClickWriteFails(t, q, k)
          => /\ score' = SetSize(answeredQuizIds')
             /\ AllAnsweredAfter(t) => ~nextDisabled'[t]]_vars

\* C19: right after a load, whatever the three items hold (also after a save
\* that was interrupted between two setItem calls), score equals the size of
\* answeredQuizIds.
C19_LoadedScoreIsAnsweredCount ==
    lastCmd \in {"load", "reload"} => score = SetSize(answeredQuizIds)

\* the number of quizzes of task t that are in answeredQuizIds
AnsweredCount(t) == Cardinality({q \in QuizIdx(t) : SetHas(answeredQuizIds, QuizId(t, q))})

\* C21: a task's next button is enabled exactly when the number of its answered
\* quizzes equals its data-questions-total, also when that total differs from
\* the number of quizzes the task has.
C21_EligibleIffEqualsTotal ==
    listening =>
        \A t \in Tasks :
            ~nextDisabled[t] <=> AnsweredCount(t) = AttrParseInt(questionsTotal[t])

\* C22: task1 starts unlocked and every other task locked, and no step other
\* than a reset (an answer, an advance, a header click, a reload of the saved
\* state) locks a task that was unlocked.
C22_UnlockedStaysUnlocked ==
    /\ \A t \in Tasks : locked[t] <=> t # 1
    /\ [][lastCmd' # "reset" => \A t \in Tasks : ~locked[t] => ~locked'[t]]_vars

C22_Witness ==
    /\ lastCmd = "reload"
    /\ locked = [t \in Tasks |-> FALSE]
    /\ advancedOk = {1, 2}

\* C23: no step other than a reset removes a quiz id from answeredQuizIds.
C23_AnsweredOnlyGrows ==
    [][lastCmd' # "reset" => Members(answeredQuizIds) \subseteq Members(answeredQuizIds')]_vars

C23_Witness ==
    /\ lastCmd = "submit_incorrect"
    /\ Members(answeredQuizIds) = {QuizId(1, 0), QuizId(2, 0), QuizId(3, 0)}
    /\ ~answered[1][1]

\* C24: toggleActive on an unlocked task: when the task was active no task is
\* active afterwards, and when it was not it is the only active task afterwards.
C24_ToggleOpensOnlyClicked ==
    [][\A t \in Tasks :
          (~locked[t] /\ handleTaskHeaderClick(t))
          => ActiveTasks' = IF active[t] THEN {} ELSE {t}]_vars

C24_Witness ==
    /\ lastCmd = "toggle"
    /\ ActiveTasks = {2}
    /\ locked = [t \in Tasks |-> FALSE]
    /\ advancedOk = {1, 2}

\* C25: in every state answeredCorrectlyCount equals the size of answeredQuizIds
\* and the progress width is 100 * that size / totalQuestions.
C25_ProgressFollowsAnswered ==
    /\ answeredCorrectlyCount = SetSize(answeredQuizIds)
    /\ progress[1] * totalQuestions = 100 * SetSize(answeredQuizIds) * progress[2]

C25_Witness ==
    /\ lastCmd = "reload"
    /\ SetSize(answeredQuizIds) = 2
    /\ progress = <<200, totalQuestions>>

\* C26: every quiz id in answeredQuizIds belongs to a task that is unlocked.
C26_AnsweredOnlyInUnlocked ==
    \A t \in Tasks : \A q \in QuizIdx(t) :
        SetHas(answeredQuizIds, QuizId(t, q)) => ~locked[t]

\* C27: the final alert is shown only when every quiz of every task is answered
\* and the score it carries equals the number of quizzes.
C27_CompletionMeansAllAnswered ==
    lastCmd = "complete" =>
        /\ \A t \in Tasks : AllAnswered(t)
        /\ alert.message = <<totalQuestions, totalQuestions>>

\* C28: in every state every active task is unlocked.
C28_ActiveIsUnlocked == \A t \in Tasks : active[t] => ~locked[t]

C28_Witness ==
    /\ lastCmd = "advance"
    /\ ActiveTasks = {3}
    /\ ~locked[3]
    /\ advancedOk = {1, 2}

\* C29: toggleActive, accepted or rejected, changes neither score,
\* answeredQuizIds, unlockedTaskIds nor the stored items, nor any lock, answered
\* mark, next button or the progress width.
C29_ToggleFrame ==
    [][\A t \in Tasks :
          handleTaskHeaderClick(t)
          => UNCHANGED <<score, answeredQuizIds, unlockedTaskIds, storage,
                         locked, answered, nextDisabled, progress>>]_vars

C29_Witness ==
    /\ lastCmd = "toggle"
    /\ ActiveTasks = {1}
    /\ score = 2
    /\ storage[LS_SCORE] = Text(<<"2">>)
    /\ locked[2]

\* C30: a reload of the saved state leaves every next button as it was: enabled
\* exactly for the tasks it was enabled for before.
C30_EligibilitySurvivesReload ==
    [][(lastCmd' = "reload" /\ Reload) => nextDisabled' = nextDisabled]_vars

C30_Witness ==
    /\ lastCmd = "reload"
    /\ nextDisabled = <<FALSE, TRUE, TRUE>>
    /\ score = 2
    /\ locked[2]

\* C31: submitting an empty URL changes nothing; submitting a non-empty URL
\* sets isLoading; a successful answer sets report to the response and page to
\* 'report'; a failed one leaves page and report as they are and, on the
\* HomePage that submitted, sets the error message and clears isLoading; page
\* becomes 'report' by no other step; and isLoading always returns to false.
C31_SubmitSettles ==
    /\ [][/\ (url = "" /\ FormSubmit)
             => UNCHANGED <<page, report, url, isLoading, error, pendingAnalyze>>
          /\ (url # "" /\ FormSubmit)
             => isLoading' /\ [url |-> url, mounted |-> TRUE] \in pendingAnalyze'
          /\ \A req \in AnalyzeCalls : \A rep \in ReportIds :
                analyzeUrlResolves(req, rep) => page' = "report" /\ report' = rep
          /\ \A req \in AnalyzeCalls :
                analyzeUrlRejects(req)
                => /\ UNCHANGED <<page, report>>
                   /\ req.mounted
                      => page' = "home" /\ error' = ErrorMessage /\ ~isLoading'
          /\ (page # "report" /\ page' = "report")
             => lastEvent' \in {"analyze_ok", "view_ok"}]_vars
    /\ isLoading ~> ~isLoading

C31_Witness ==
    /\ lastEvent = "analyze_failed"
    /\ page = "home"
    /\ url = "a"
    /\ error = ErrorMessage
    /\ ~isLoading
    /\ pendingAnalyze = {}

\* C32: when a fetched report is displayed and no fetch is waiting any more,
\* the report displayed is the one requested last, if its fetch succeeded.
C32_LastRequestedIsDisplayed ==
    (lastEvent = "view_ok" /\ pendingView = {} /\ lastView \in shown)
    => report = lastView

=============================================================================
